---- MODULE Spec2Model ----
(***************************************************************************)
(* A model of the generated TestLexer of flexer-testing/generation         *)
(* (src/src/flexer-testing/generation/src/generated/engine.rs): the rule   *)
(* actions of the two groups ROOT and SEEN FIRST WORD, the generated       *)
(* interval dispatch tables state_g_to_s, and the driver run /             *)
(* run_current_state / step.  The lazy reader, the bookmark manager, the   *)
(* group stack of the Flexer and the StageStatus helpers live outside the  *)
(* generated file; they are modelled from their contracts.                 *)
(***************************************************************************)
EXTENDS Integers, Sequences, FiniteSets, TLC

VARIABLES
    input,          \* the items the reader will deliver, in order
    offset,         \* reader: number of items consumed so far
    character,      \* reader: the current item (reader.character())
    result,         \* reader: the match buffer (reader.result())
    matched,        \* bookmarks: position stored in the "matched" bookmark
    status,         \* Flexer.status
    finished,       \* local `finished` of run_current_state
    state_stack,    \* Flexer.state_stack, top is the last element
    current_match,  \* Flexer.current_match
    output,         \* Flexer.output (TokenStream.tokens)
    arm,            \* the accepting arm being executed: <<group, rule>>
    lexing_result,  \* the value run returns
    pc,             \* position in run / run_current_state / an accepting arm
    scan_start,     \* history: reader position at which the current scan began
    pushed,         \* history: every token pushed to output, in order
    fired,          \* history: every rule action invoked, in order
    pops,           \* history: stack depth seen by every pop_state call
    probe,          \* one application of step to a (group, sub-state, symbol)
    calls,          \* history: the set_up / tear_down calls, in order
    first_result,   \* history: what the first run on this lexer returned
    sw,             \* a Switch<T>: its value and is_on
    sw_trace        \* history: the calls made on sw, each with the Switch after it

vars == <<input, offset, character, result, matched, status, finished,
          state_stack, current_match, output, arm, lexing_result, pc,
          scan_start, pushed, fired, pops, probe, calls, first_result,
          sw, sw_trace>>

-----------------------------------------------------------------------------
(* Bounds of the model.                                                    *)

MaxLen == 4

\* Switch: the values of T, and the number of calls made on one Switch.
MaxValue == 2

MaxOps == 4

MaxTokens == 2

MaxSyms == 4

-----------------------------------------------------------------------------
(* 64-bit symbols.  A u64 is kept as four 16-bit limbs, most significant   *)
(* first, so that 18446744073709551614 and 18446744073709551615 of the     *)
(* generated tables are exact.                                             *)

U64(n) == <<0, 0, n \div 65536, n % 65536>>

U64Max == <<65535, 65535, 65535, 65535>>

U64MaxPred == <<65535, 65535, 65535, 65534>>

RECURSIVE LimbsLeq(_, _, _)
LimbsLeq(x, y, i) ==
    IF i > 4 THEN TRUE
    ELSE IF x[i] < y[i] THEN TRUE
    ELSE IF x[i] > y[i] THEN FALSE
    ELSE LimbsLeq(x, y, i + 1)

U64Leq(x, y) == LimbsLeq(x, y, 1)

-----------------------------------------------------------------------------
(* Reader items and their conversion to a symbol.                          *)

Ok(c) == [kind |-> "Ok", c |-> c]

Err(e) == [kind |-> e, c |-> 0]

EOF == Err("EOF")

InvalidChar == Err("InvalidChar")

EndOfGroup == Err("EndOfGroup")

\* u64::from(reader.character()): a decoded char is its code point, EOF is the
\* pseudo-symbol u64::MAX, the other errors are markers above the code points.
SymbolOf(ch) ==
    CASE ch.kind = "Ok"          -> U64(ch.c)
      [] ch.kind = "EOF"         -> U64Max
      [] ch.kind = "InvalidChar" -> <<0, 0, 65535, 65535>>
      [] OTHER                   -> <<0, 1, 0, 0>>

is_eof(ch) == ch.kind = "EOF"

\* The reader position: the index of the current item (EOF has size 0).
Position(off, ch) == IF is_eof(ch) THEN off ELSE off - 1

\* reader.advance_char: the next item, or EOF once the input is used up.
advance_char(inp, off) ==
    IF off < Len(inp)
    THEN [offset |-> off + 1, character |-> inp[off + 1]]
    ELSE [offset |-> off, character |-> EOF]

\* reader.finished: nothing is left to read.
reader_finished(inp, off) == off >= Len(inp)

-----------------------------------------------------------------------------
(* StageStatus.                                                            *)

Initial == [tag |-> "Initial", sub |-> 0]

ContinueWith(s) == [tag |-> "ContinueWith", sub |-> s]

ExitSuccess == [tag |-> "ExitSuccess", sub |-> 0]

ExitFinished == [tag |-> "ExitFinished", sub |-> 0]

ExitFail == [tag |-> "ExitFail", sub |-> 0]

should_continue(st) == st.tag \in {"Initial", "ContinueWith"}

\* continue_as: the sub-state to continue in (the caller tests should_continue).
continue_as(st) == IF st.tag = "Initial" THEN 0 ELSE st.sub

-----------------------------------------------------------------------------
(* Tokens, and the Flexer fields the rule actions touch.                   *)

Word(s) == [kind |-> "Word", text |-> s]

Unrecognized(s) == [kind |-> "Unrecognized", text |-> s]

ROOT == 0

SEEN_FIRST_WORD == 1

WhiteSpace == {9, 10, 11, 12, 13, 32}

RECURSIVE trim_start(_)
trim_start(s) ==
    IF s # <<>> /\ Head(s) \in WhiteSpace THEN trim_start(Tail(s)) ELSE s

RECURSIVE trim_end(_)
trim_end(s) ==
    IF s # <<>> /\ s[Len(s)] \in WhiteSpace
    THEN trim_end(SubSeq(s, 1, Len(s) - 1))
    ELSE s

\* trim removing trailing whitespace only.
trim_only_end(s) == trim_end(s)

trim(s) == trim_end(trim_start(s))

\* The part of the lexer a rule action reads and writes.
Lexer(out, stack, hist, popd) ==
    [output |-> out, state_stack |-> stack, pushed |-> hist, pops |-> popd]

output_push(lx, tok) ==
    [lx EXCEPT !.output = Append(@, tok), !.pushed = Append(@, tok)]

push_state(lx, id) == [lx EXCEPT !.state_stack = Append(@, id)]

\* pop_state: the stack never becomes empty; the sole group stays.
pop_state(lx) ==
    [lx EXCEPT !.state_stack = IF Len(@) > 1 THEN SubSeq(@, 1, Len(@) - 1) ELSE @,
               !.pops = Append(@, Len(lx.state_stack))]

current_state(stack) == stack[Len(stack)]

-----------------------------------------------------------------------------
(* The rule actions.  Each takes the lexer and self.current_match.         *)

on_first_word(lx, cm) == push_state(output_push(lx, Word(cm)), SEEN_FIRST_WORD)

\* on_err_suffix_first_word dropping the symbol instead of emitting it.
on_err_suffix_first_word_silent(lx, cm) == lx

on_err_suffix_first_word(lx, cm) == output_push(lx, Unrecognized(cm))

on_no_err_suffix_first_word(lx, cm) == lx

\* on_spaced_word without the trim of the leading space.
on_spaced_word_untrimmed(lx, cm) == output_push(lx, Word(cm))

on_spaced_word(lx, cm) == output_push(lx, Word(trim(cm)))

\* on_err_suffix without its pop_state.
on_err_suffix_no_pop(lx, cm) == on_err_suffix_first_word(lx, cm)

on_err_suffix(lx, cm) == pop_state(on_err_suffix_first_word(lx, cm))

\* on_no_err_suffix leaving SEEN FIRST WORD on the stack.
on_no_err_suffix_no_pop(lx, cm) == on_no_err_suffix_first_word(lx, cm)

on_no_err_suffix(lx, cm) == pop_state(on_no_err_suffix_first_word(lx, cm))

group_0_rule_0(lx, cm) == on_first_word(lx, cm)

group_0_rule_1(lx, cm) == on_first_word(lx, cm)

group_0_rule_2(lx, cm) == on_no_err_suffix_first_word(lx, cm)

\* The catch-all rule of ROOT bound to the action of SEEN FIRST WORD.
group_0_rule_3_pops(lx, cm) == on_err_suffix(lx, cm)

group_0_rule_3(lx, cm) == on_err_suffix_first_word(lx, cm)

group_1_rule_0(lx, cm) == on_spaced_word(lx, cm)

group_1_rule_1(lx, cm) == on_spaced_word(lx, cm)

group_1_rule_2(lx, cm) == on_no_err_suffix(lx, cm)

group_1_rule_3(lx, cm) == on_err_suffix(lx, cm)

\* The call self.group_g_rule_k(reader) of an accepting arm.
rule_action(g, k, lx, cm) ==
    CASE g = 0 /\ k = 0 -> group_0_rule_0(lx, cm)
      [] g = 0 /\ k = 1 -> group_0_rule_1(lx, cm)
      [] g = 0 /\ k = 2 -> group_0_rule_2(lx, cm)
      [] g = 0 /\ k = 3 -> group_0_rule_3(lx, cm)
      [] g = 1 /\ k = 0 -> group_1_rule_0(lx, cm)
      [] g = 1 /\ k = 1 -> group_1_rule_1(lx, cm)
      [] g = 1 /\ k = 2 -> group_1_rule_2(lx, cm)
      [] g = 1 /\ k = 3 -> group_1_rule_3(lx, cm)

-----------------------------------------------------------------------------
(* The generated transition functions.  A function is the list of its      *)
(* match arms in source order; an arm is an inclusive interval (or the     *)
(* wildcard _) and what the arm does: continue in a sub-state, or run the  *)
(* accepting transition of a rule.                                         *)

Goto(s) == [tag |-> "ContinueWith", n |-> s]

Accept(k) == [tag |-> "Accept", n |-> k]

Range(lo, hi, out) == [wild |-> FALSE, lo |-> U64(lo), hi |-> U64(hi), out |-> out]

RangeToMaxPred(lo, out) == [wild |-> FALSE, lo |-> U64(lo), hi |-> U64MaxPred, out |-> out]

Wild(out) == [wild |-> TRUE, lo |-> U64(0), hi |-> U64Max, out |-> out]

\* state_0_to_0 with EOF falling into the catch-all interval.
state_0_to_0_eof_as_any ==
    << Range(0, 96, Goto(1)), Range(97, 97, Goto(2)), Range(98, 98, Goto(3)),
       Wild(Goto(1)) >>

state_0_to_0 ==
    << Range(0, 96, Goto(1)), Range(97, 97, Goto(2)), Range(98, 98, Goto(3)),
       RangeToMaxPred(99, Goto(1)), Wild(Goto(4)) >>

\* state_0_to_1 giving up with ExitFail instead of accepting the catch-all.
state_0_to_1_fails == << Wild([tag |-> "ExitFail", n |-> 0]) >>

state_0_to_1 == << Wild(Accept(3)) >>

\* state_0_to_2 with the accept tag of the later-declared catch-all rule.
state_0_to_2_catch_all_first ==
    << Range(0, 96, Accept(3)), Range(97, 97, Goto(5)), Wild(Accept(3)) >>

state_0_to_2 ==
    << Range(0, 96, Accept(0)), Range(97, 97, Goto(5)), Wild(Accept(0)) >>

state_0_to_3 ==
    << Range(0, 97, Accept(1)), Range(98, 98, Goto(6)), Wild(Accept(1)) >>

state_0_to_4 == << Wild(Accept(2)) >>

\* state_0_to_5 without the loop on 'a'.
state_0_to_5_no_loop == << Range(0, 96, Accept(0)), Wild(Accept(0)) >>

state_0_to_5 ==
    << Range(0, 96, Accept(0)), Range(97, 97, Goto(5)), Wild(Accept(0)) >>

state_0_to_6 ==
    << Range(0, 97, Accept(1)), Range(98, 98, Goto(6)), Wild(Accept(1)) >>

\* state_1_to_0 without the arm for the EOF pseudo-symbol.
state_1_to_0_no_eof_arm ==
    << Range(0, 31, Goto(1)), Range(32, 32, Goto(2)), RangeToMaxPred(33, Goto(1)) >>

state_1_to_0 ==
    << Range(0, 31, Goto(1)), Range(32, 32, Goto(2)),
       RangeToMaxPred(33, Goto(1)), Wild(Goto(3)) >>

state_1_to_1 == << Wild(Accept(3)) >>

state_1_to_2 ==
    << Range(0, 96, Accept(3)), Range(97, 97, Goto(4)), Range(98, 98, Goto(5)),
       Wild(Accept(3)) >>

state_1_to_3 == << Wild(Accept(2)) >>

\* state_1_to_4 without the continuation on 'a'.
state_1_to_4_no_loop == << Range(0, 96, Accept(0)), Wild(Accept(0)) >>

state_1_to_4 ==
    << Range(0, 96, Accept(0)), Range(97, 97, Goto(6)), Wild(Accept(0)) >>

state_1_to_5 ==
    << Range(0, 97, Accept(1)), Range(98, 98, Goto(7)), Wild(Accept(1)) >>

state_1_to_6 ==
    << Range(0, 96, Accept(0)), Range(97, 97, Goto(6)), Wild(Accept(0)) >>

state_1_to_7 ==
    << Range(0, 97, Accept(1)), Range(98, 98, Goto(7)), Wild(Accept(1)) >>

\* The arms of dispatch_in_state_g for a sub-state; <<>> stands for the arm
\* `_ => unreachable_panic!`.
dispatch_in_state_0(s) ==
    CASE s = 0 -> state_0_to_0
      [] s = 1 -> state_0_to_1
      [] s = 2 -> state_0_to_2
      [] s = 3 -> state_0_to_3
      [] s = 4 -> state_0_to_4
      [] s = 5 -> state_0_to_5
      [] s = 6 -> state_0_to_6
      [] OTHER -> <<>>

dispatch_in_state_1(s) ==
    CASE s = 0 -> state_1_to_0
      [] s = 1 -> state_1_to_1
      [] s = 2 -> state_1_to_2
      [] s = 3 -> state_1_to_3
      [] s = 4 -> state_1_to_4
      [] s = 5 -> state_1_to_5
      [] s = 6 -> state_1_to_6
      [] s = 7 -> state_1_to_7
      [] OTHER -> <<>>

ArmApplies(a, sym) == a.wild \/ (U64Leq(a.lo, sym) /\ U64Leq(sym, a.hi))

\* A match expression: the first arm that applies decides.
RECURSIVE MatchArms(_, _)
MatchArms(arms, sym) ==
    IF arms = <<>> THEN [tag |-> "Unreachable", n |-> 0]
    ELSE IF ArmApplies(Head(arms), sym) THEN Head(arms).out
    ELSE MatchArms(Tail(arms), sym)

\* step: dispatch on the current group, then on the sub-state, then on the symbol.
step(g, s, sym) ==
    CASE g = 0 -> MatchArms(dispatch_in_state_0(s), sym)
      [] g = 1 -> MatchArms(dispatch_in_state_1(s), sym)
      [] OTHER -> [tag |-> "Unreachable", n |-> 0]

-----------------------------------------------------------------------------
(* The state after TestLexer::define() and before run is called on a       *)
(* reader over some input.                                                 *)

Items == {Ok(97), Ok(98), Ok(32), Ok(33), InvalidChar, EndOfGroup}

Inputs == UNION {[1..n -> Items] : n \in 0..MaxLen}

NoResult == [kind |-> "None", tokens |-> <<>>]

NotRun == [tag |-> "NotRun", n |-> 0]

NoProbe == [g |-> 0, s0 |-> 0, s |-> 0, syms |-> <<>>, i |-> 1, out |-> NotRun]

-----------------------------------------------------------------------------
(* Switch<T> of the prelude: a value and an on / off status.               *)

Some(v) == [tag |-> "Some", value |-> v]

None == [tag |-> "None", value |-> 0]

new(value, on_) == [value |-> value, is_on |-> on_]

On(value) == new(value, TRUE)

Off(value) == new(value, FALSE)

switch(s, b) == [s EXCEPT !.is_on = b]

\* toggle turning the Switch on whatever it was.
toggle_turns_on(s) == [s EXCEPT !.is_on = TRUE]

toggle(s) == [s EXCEPT !.is_on = ~s.is_on]

is_on(s) == s.is_on

is_off(s) == ~is_on(s)

\* No Switch is in play in a run of the lexer.
NoSwitch == sw = Off(0) /\ sw_trace = <<>>

Fresh ==
    /\ offset = 0
    /\ character = EOF
    /\ result = <<>>
    /\ matched = 0
    /\ status = Initial
    /\ finished = FALSE
    /\ state_stack = <<ROOT>>
    /\ current_match = <<>>
    /\ output = <<>>
    /\ arm = <<0, 0>>
    /\ lexing_result = NoResult
    /\ scan_start = 0
    /\ pushed = <<>>
    /\ fired = <<>>
    /\ pops = <<>>
    /\ calls = <<>>
    /\ first_result = NoResult

Init ==
    /\ input \in Inputs
    /\ Fresh
    /\ NoSwitch
    /\ pc = "run"
    /\ probe = NoProbe

-----------------------------------------------------------------------------
(* run.                                                                    *)

\* self.set_up()
SetUp ==
    /\ pc = "run"
    /\ calls' = Append(calls, "set_up")
    /\ pc' = "advance"
    /\ UNCHANGED <<input, offset, character, result, matched, status, finished,
                   state_stack, current_match, output, arm, lexing_result,
                   scan_start, pushed, fired, pops, probe, first_result,
                   sw, sw_trace>>

\* reader.advance_char(&mut self.bookmarks)
AdvanceFirst ==
    /\ pc = "advance"
    /\ LET r == advance_char(input, offset)
       IN /\ offset' = r.offset
          /\ character' = r.character
    /\ pc' = "scan"
    /\ UNCHANGED <<input, result, matched, status, finished, state_stack,
                   current_match, output, arm, lexing_result, scan_start,
                   pushed, fired, pops, probe, calls,
                   first_result,
                   sw, sw_trace>>

\* run_current_state, entry: status = Initial; finished = false.
\* EnterScan keeping the status of the previous scan.
EnterScan_no_reset ==
    /\ pc = "scan"
    /\ finished' = FALSE
    /\ scan_start' = Position(offset, character)
    /\ pc' = "loop"
    /\ UNCHANGED <<input, offset, character, result, matched, status,
                   state_stack, current_match, output, arm, lexing_result,
                   pushed, fired, pops, probe, calls, first_result,
                   sw, sw_trace>>

EnterScan ==
    /\ pc = "scan"
    /\ status' = Initial
    /\ finished' = FALSE
    /\ scan_start' = Position(offset, character)
    /\ pc' = "loop"
    /\ UNCHANGED <<input, offset, character, result, matched, state_stack,
                   current_match, output, arm, lexing_result, pushed, fired,
                   pops, probe, calls,
                   first_result,
                   sw, sw_trace>>

\* self.status = self.step(next_state, reader), up to the choice of the arm: a
\* ContinueWith arm is the whole step, an accepting arm is entered.
Step ==
    /\ pc = "loop"
    /\ should_continue(status)
    /\ LET g   == current_state(state_stack)
           out == step(g, continue_as(status), SymbolOf(character))
       IN CASE out.tag = "ContinueWith" ->
                 /\ status' = ContinueWith(out.n)
                 /\ pc' = "stepped"
                 /\ arm' = arm
            [] out.tag = "Accept" ->
                 /\ arm' = <<g, out.n>>
                 /\ pc' = "pop_result"
                 /\ status' = status
            [] out.tag = "ExitFail" ->
                 /\ status' = ExitFail
                 /\ pc' = "stepped"
                 /\ arm' = arm
            [] OTHER ->
                 /\ pc' = "panic_unreachable"
                 /\ UNCHANGED <<status, arm>>
    /\ UNCHANGED <<input, offset, character, result, matched, finished,
                   state_stack, current_match, output, lexing_result,
                   scan_start, pushed, fired, pops, probe, calls,
                   first_result,
                   sw, sw_trace>>

\* An accepting arm that goes from pop_result straight to the bookmark, without
\* the call of the rule action.
PopResult_skips_action ==
    /\ pc = "pop_result"
    /\ current_match' = result
    /\ result' = <<>>
    /\ pc' = "bookmark"
    /\ UNCHANGED <<input, offset, character, matched, status, finished,
                   state_stack, output, arm, lexing_result, scan_start, pushed,
                   fired, pops, probe, calls, first_result,
                   sw, sw_trace>>

\* pop_result reading the match buffer without emptying it.
PopResult_keeps_result ==
    /\ pc = "pop_result"
    /\ current_match' = result
    /\ pc' = "action"
    /\ UNCHANGED <<input, offset, character, result, matched, status, finished,
                   state_stack, output, arm, lexing_result, scan_start, pushed,
                   fired, pops, probe, calls, first_result,
                   sw, sw_trace>>

\* accepting arm: self.current_match = reader.pop_result()
PopResult ==
    /\ pc = "pop_result"
    /\ current_match' = result
    /\ result' = <<>>
    /\ pc' = "action"
    /\ UNCHANGED <<input, offset, character, matched, status, finished,
                   state_stack, output, arm, lexing_result, scan_start, pushed,
                   fired, pops, probe, calls,
                   first_result,
                   sw, sw_trace>>

\* accepting arm: self.group_g_rule_k(reader)
RunAction ==
    /\ pc = "action"
    /\ LET lx == rule_action(arm[1], arm[2],
                             Lexer(output, state_stack, pushed, pops),
                             current_match)
       IN /\ output' = lx.output
          /\ state_stack' = lx.state_stack
          /\ pushed' = lx.pushed
          /\ pops' = lx.pops
    /\ fired' = Append(fired, [group |-> arm[1], rule |-> arm[2],
                               match |-> current_match, start |-> scan_start,
                               sub |-> continue_as(status)])
    /\ pc' = "bookmark"
    /\ UNCHANGED <<input, offset, character, result, matched, status, finished,
                   current_match, arm, lexing_result, scan_start, probe, calls,
                   first_result,
                   sw, sw_trace>>

\* bookmarks.bookmark(id, reader): the bookmark takes the reader's position.
bookmark(off, ch) == Position(off, ch)

\* The bookmark step storing the length of the match, not the reader position.
Bookmark_match_length ==
    /\ pc = "bookmark"
    /\ matched' = Len(current_match)
    /\ status' = ExitSuccess
    /\ pc' = "stepped"
    /\ UNCHANGED <<input, offset, character, result, finished, state_stack,
                   current_match, output, arm, lexing_result, scan_start,
                   pushed, fired, pops, probe, calls,
                   first_result,
                   sw, sw_trace>>

\* accepting arm: self.bookmarks.bookmark(matched_bookmark, reader), and the
\* arm's value StageStatus::ExitSuccess, which step hands to self.status.
Bookmark ==
    /\ pc = "bookmark"
    /\ matched' = bookmark(offset, character)
    /\ status' = ExitSuccess
    /\ pc' = "stepped"
    /\ UNCHANGED <<input, offset, character, result, finished, state_stack,
                   current_match, output, arm, lexing_result, scan_start,
                   pushed, fired, pops, probe, calls,
                   first_result,
                   sw, sw_trace>>

\* The finished check without the `finished &&` of the previous iteration.
after_finished_check_without_flag(st, fin, inp, off) ==
    IF reader_finished(inp, off) THEN ExitFinished ELSE st

\* The status after `if finished && reader.finished(..) {status = ExitFinished}`.
after_finished_check(st, fin, inp, off) ==
    IF fin /\ reader_finished(inp, off) THEN ExitFinished ELSE st

\* The loop body with reader.advance_char outside `if should_continue()`.
LoopTail_always_advances ==
    /\ pc = "stepped"
    /\ LET st == after_finished_check(status, finished, input, offset)
       IN /\ status' = st
          /\ finished' = is_eof(character)
          /\ IF should_continue(st) /\ character.kind = "EndOfGroup"
             THEN /\ pc' = "panic_missing_rules"
                  /\ UNCHANGED <<result, offset, character>>
             ELSE IF should_continue(st) /\ character.kind \notin {"Ok", "EOF"}
             THEN /\ pc' = "panic_unexpected_error"
                  /\ UNCHANGED <<result, offset, character>>
             ELSE /\ result' = IF should_continue(st) /\ character.kind = "Ok"
                               THEN Append(result, character.c) ELSE result
                  /\ offset' = advance_char(input, offset).offset
                  /\ character' = advance_char(input, offset).character
                  /\ pc' = "loop"
    /\ UNCHANGED <<input, matched, state_stack, current_match, output, arm,
                   lexing_result, scan_start, pushed, fired, pops, probe, calls,
                   first_result,
                   sw, sw_trace>>

\* run_current_state, the loop body after the step: the finished check, the
\* update of `finished`, and for a continuing status the append to the match
\* buffer and the advance of the reader.
LoopTail ==
    /\ pc = "stepped"
    /\ LET st == after_finished_check(status, finished, input, offset)
       IN /\ status' = st
          /\ finished' = is_eof(character)
          /\ IF should_continue(st)
             THEN CASE character.kind = "Ok" ->
                         /\ result' = Append(result, character.c)
                         /\ offset' = advance_char(input, offset).offset
                         /\ character' = advance_char(input, offset).character
                         /\ pc' = "loop"
                    [] character.kind = "EOF" ->
                         /\ result' = result
                         /\ offset' = advance_char(input, offset).offset
                         /\ character' = advance_char(input, offset).character
                         /\ pc' = "loop"
                    [] character.kind = "EndOfGroup" ->
                         /\ pc' = "panic_missing_rules"
                         /\ UNCHANGED <<result, offset, character>>
                    [] OTHER ->
                         /\ pc' = "panic_unexpected_error"
                         /\ UNCHANGED <<result, offset, character>>
             ELSE /\ pc' = "loop"
                  /\ UNCHANGED <<result, offset, character>>
    /\ UNCHANGED <<input, matched, state_stack, current_match, output, arm,
                   lexing_result, scan_start, pushed, fired, pops, probe, calls,
                   first_result,
                   sw, sw_trace>>

\* run_current_state returns self.status; run's while loop scans again on
\* ExitSuccess and leaves the loop otherwise.
ReturnScan ==
    /\ pc = "loop"
    /\ ~should_continue(status)
    /\ pc' = IF status = ExitSuccess THEN "scan" ELSE "result"
    /\ UNCHANGED <<input, offset, character, result, matched, status, finished,
                   state_stack, current_match, output, arm, lexing_result,
                   scan_start, pushed, fired, pops, probe, calls,
                   first_result,
                   sw, sw_trace>>

\* The result expression with ExitFail falling into the catch-all arm.
make_result_fail_as_partial(st, out) ==
    CASE st = ExitFinished -> [kind |-> "Success", tokens |-> out]
      [] OTHER             -> [kind |-> "Partial", tokens |-> out]

\* The LexingResult run builds from the final status and the taken output.
make_result(st, out) ==
    CASE st = ExitFinished -> [kind |-> "Success", tokens |-> out]
      [] st = ExitFail     -> [kind |-> "Failure", tokens |-> out]
      [] OTHER             -> [kind |-> "Partial", tokens |-> out]

\* let result = match self.status {..}, with mem::take(&mut self.output)
BuildResult ==
    /\ pc = "result"
    /\ lexing_result' = make_result(status, output)
    /\ output' = <<>>
    /\ pc' = "tear_down"
    /\ UNCHANGED <<input, offset, character, result, matched, status, finished,
                   state_stack, current_match, arm, scan_start, pushed, fired,
                   pops, probe, calls,
                   first_result,
                   sw, sw_trace>>

\* self.tear_down(); result
TearDown ==
    /\ pc = "tear_down"
    /\ calls' = Append(calls, "tear_down")
    /\ pc' = "done"
    /\ UNCHANGED <<input, offset, character, result, matched, status, finished,
                   state_stack, current_match, output, arm, lexing_result,
                   scan_start, pushed, fired, pops, probe, first_result,
                   sw, sw_trace>>

Next ==
    \/ SetUp
    \/ AdvanceFirst
    \/ EnterScan
    \/ Step
    \/ PopResult
    \/ RunAction
    \/ Bookmark
    \/ LoopTail
    \/ ReturnScan
    \/ BuildResult
    \/ TearDown

Spec == Init /\ [][Next]_vars

\* run is sequential code: whenever a statement of it can execute, it does.
SpecFair == Init /\ [][Next]_vars /\ WF_vars(Next)

(* A second call of run on the same TestLexer with a new reader over the   *)
(* same input.  The fields of the lexer (status, state_stack,              *)
(* current_match, output, bookmarks) are whatever the first call left; the *)
(* reader and the locals of run are new.  first_result keeps what the      *)
(* first call, made on a freshly defined lexer, returned.                  *)
RunAgain ==
    /\ pc = "done"
    /\ first_result = NoResult
    /\ first_result' = lexing_result
    /\ offset' = 0
    /\ character' = EOF
    /\ result' = <<>>
    /\ lexing_result' = NoResult
    /\ finished' = FALSE
    /\ arm' = <<0, 0>>
    /\ scan_start' = 0
    /\ pushed' = <<>>
    /\ fired' = <<>>
    /\ pops' = <<>>
    /\ calls' = <<>>
    /\ pc' = "run"
    /\ UNCHANGED <<input, matched, status, state_stack, current_match, output,
                   probe,
                   sw, sw_trace>>

NextRerun == Next \/ RunAgain

SpecRerun == Init /\ [][NextRerun]_vars

-----------------------------------------------------------------------------
(* A Switch constructed with any value and status, then modified by up to  *)
(* MaxOps - 1 calls of switch and toggle.                                  *)

on(s) == IF is_on(s) THEN Some(s.value) ELSE None

off(s) == IF is_off(s) THEN Some(s.value) ELSE None

SwitchValues == 0..MaxValue

Call(op, arg, after) == [op |-> op, arg |-> arg, sw |-> after]

InitSwitch ==
    /\ input = <<>>
    /\ Fresh
    /\ pc = "switch"
    /\ probe = NoProbe
    /\ \E v \in SwitchValues : \E b \in BOOLEAN : sw = new(v, b)
    /\ sw_trace = <<Call("new", is_on(sw), sw)>>

SwitchTo(b) ==
    /\ pc = "switch"
    /\ Len(sw_trace) < MaxOps
    /\ sw' = switch(sw, b)
    /\ sw_trace' = Append(sw_trace, Call("switch", b, sw'))
    /\ UNCHANGED <<input, offset, character, result, matched, status, finished,
                   state_stack, current_match, output, arm, lexing_result, pc,
                   scan_start, pushed, fired, pops, probe, calls,
                   first_result>>

Toggle ==
    /\ pc = "switch"
    /\ Len(sw_trace) < MaxOps
    /\ sw' = toggle(sw)
    /\ sw_trace' = Append(sw_trace, Call("toggle", FALSE, sw'))
    /\ UNCHANGED <<input, offset, character, result, matched, status, finished,
                   state_stack, current_match, output, arm, lexing_result, pc,
                   scan_start, pushed, fired, pops, probe, calls,
                   first_result>>

NextSwitch == Toggle \/ \E b \in BOOLEAN : SwitchTo(b)

SpecSwitch == InitSwitch /\ [][NextSwitch]_vars

-----------------------------------------------------------------------------
(* The rules of the two groups, as the languages of their patterns over    *)
(* symbols, in declaration order (rule k of group g is group_g_rule_k).    *)

AllEqual(w, sym) == \A j \in 1..Len(w) : w[j] = sym

\* Pattern::char(c).many1()
many1(w, c) == w # <<>> /\ AllEqual(w, U64(c))

\* Pattern::eof()
eof(w) == w = <<U64Max>>

\* Pattern::any()
any(w) == Len(w) = 1

rules_in_root(k, w) ==
    CASE k = 0 -> many1(w, 97)
      [] k = 1 -> many1(w, 98)
      [] k = 2 -> eof(w)
      [] k = 3 -> any(w)

\* &space >> &a_word
spaced(w, c) == Len(w) >= 2 /\ Head(w) = U64(32) /\ many1(Tail(w), c)

rules_in_seen_first_word(k, w) ==
    CASE k = 0 -> spaced(w, 97)
      [] k = 1 -> spaced(w, 98)
      [] k = 2 -> eof(w)
      [] k = 3 -> any(w)

RuleMatches(g, k, w) ==
    IF g = ROOT THEN rules_in_root(k, w) ELSE rules_in_seen_first_word(k, w)

-----------------------------------------------------------------------------
(* The dispatch tables on their own: a scan of group g over a stream of    *)
(* symbols, which is a finite sequence followed by the EOF pseudo-symbol.  *)

SubStates(g) == IF g = 0 THEN 0..6 ELSE 0..7

\* Values around every interval bound of the tables, an invalid-char marker
\* and the two largest values.
BoundarySymbols ==
    {U64(0), U64(31), U64(32), U64(33), U64(96), U64(97), U64(98), U64(99),
     U64(1114111), <<0, 0, 65535, 65535>>, <<0, 1, 0, 0>>, U64MaxPred, U64Max}

ScanSymbols == {U64(32), U64(33), U64(97), U64(98), <<0, 0, 65535, 65535>>}

Streams == UNION {[1..n -> ScanSymbols] : n \in 0..MaxSyms}

SymAt(p) == IF p.i <= Len(p.syms) THEN p.syms[p.i] ELSE U64Max

InitTable ==
    /\ input = <<>>
    /\ Fresh
    /\ NoSwitch
    /\ pc = "table"
    /\ \/ \E g \in {0, 1} : \E s \in SubStates(g) : \E sym \in BoundarySymbols :
            probe = [g |-> g, s0 |-> s, s |-> s, syms |-> <<sym>>, i |-> 1,
                     out |-> NotRun]
       \/ \E g \in {0, 1} : \E w \in Streams :
            probe = [g |-> g, s0 |-> 0, s |-> 0, syms |-> w, i |-> 1,
                     out |-> NotRun]

\* One application of step; a ContinueWith consumes the symbol, as the loop of
\* run_current_state does.
TableStep ==
    /\ pc = "table"
    /\ probe.out.tag \in {"NotRun", "ContinueWith"}
    /\ probe.i <= Len(probe.syms) + 2
    /\ LET out == step(probe.g, probe.s, SymAt(probe))
       IN probe' = IF out.tag = "ContinueWith"
                   THEN [probe EXCEPT !.s = out.n, !.i = @ + 1, !.out = out]
                   ELSE [probe EXCEPT !.out = out]
    /\ UNCHANGED <<input, offset, character, result, matched, status, finished,
                   state_stack, current_match, output, arm, lexing_result, pc,
                   scan_start, pushed, fired, pops, calls,
                   first_result,
                   sw, sw_trace>>

NextTable == Next \/ TableStep

\* The runs of Spec together with the scans of the tables on their own.
SpecTable == (Init \/ InitTable) /\ [][NextTable]_vars

-----------------------------------------------------------------------------
(* The result expression of run on its own: any final status, any output.  *)

Statuses ==
    {Initial, ExitSuccess, ExitFinished, ExitFail} \cup {ContinueWith(s) : s \in 0..7}

SampleTokens == {Word(<<97>>), Unrecognized(<<33>>)}

TokenSeqs == UNION {[1..n -> SampleTokens] : n \in 0..MaxTokens}

InitResult ==
    /\ input = <<>>
    /\ offset = 0
    /\ character = EOF
    /\ result = <<>>
    /\ matched = 0
    /\ status \in Statuses
    /\ finished = FALSE
    /\ state_stack = <<ROOT>>
    /\ current_match = <<>>
    /\ output \in TokenSeqs
    /\ arm = <<0, 0>>
    /\ lexing_result = NoResult
    /\ scan_start = 0
    /\ pushed = output
    /\ fired = <<>>
    /\ pops = <<>>
    /\ pc = "result"
    /\ probe = NoProbe
    /\ calls = <<"set_up">>
    /\ first_result = NoResult
    /\ NoSwitch

SpecResult == (Init \/ InitResult) /\ [][Next]_vars

-----------------------------------------------------------------------------
(* What the grammar of the module docs says about an input, computed       *)
(* without the lexer: word = 'a'+ | 'b'+, language = word (' ' word)*.     *)

AllOk(inp) == \A j \in 1..Len(inp) : inp[j].kind = "Ok"

Chars(inp) == [j \in 1..Len(inp) |-> inp[j].c]

IsWordText(w) ==
    /\ w # <<>>
    /\ \/ \A j \in 1..Len(w) : w[j] = 97
       \/ \A j \in 1..Len(w) : w[j] = 98

\* The pieces of s between its spaces.
RECURSIVE SplitOnSpace(_)
SplitOnSpace(s) ==
    IF \A j \in 1..Len(s) : s[j] # 32 THEN <<s>>
    ELSE LET k == CHOOSE j \in 1..Len(s) :
                      s[j] = 32 /\ \A h \in 1..(j - 1) : s[h] # 32
         IN <<SubSeq(s, 1, k - 1)>> \o SplitOnSpace(SubSeq(s, k + 1, Len(s)))

InLanguage(inp) ==
    /\ AllOk(inp)
    /\ \A j \in 1..Len(SplitOnSpace(Chars(inp))) :
           IsWordText(SplitOnSpace(Chars(inp))[j])

ExpectedWords(inp) ==
    [j \in 1..Len(SplitOnSpace(Chars(inp))) |-> Word(SplitOnSpace(Chars(inp))[j])]

\* The length of the maximal run of one letter ('a' or 'b') that starts inp.
FirstRunLen(inp) ==
    IF inp = <<>> \/ inp[1] \notin {Ok(97), Ok(98)} THEN 0
    ELSE CHOOSE n \in 1..Len(inp) :
            /\ \A j \in 1..n : inp[j] = inp[1]
            /\ n < Len(inp) => inp[n + 1] # inp[1]

FirstRun(inp) == [j \in 1..FirstRunLen(inp) |-> inp[1].c]

Panicked == pc \in {"panic_unreachable", "panic_missing_rules", "panic_unexpected_error"}

Success(toks) == [kind |-> "Success", tokens |-> toks]

-----------------------------------------------------------------------------
(* The claims.                                                             *)

\* C1: for every input w1 (' ' wi)*, each wi a non-empty run of only 'a' or
\* only 'b', run does not panic and returns Success with exactly the tokens
\* Word(w1), ..., Word(wn) in input order (so no Unrecognized token).
C1_LanguageInputsGiveWords ==
    InLanguage(input) =>
        /\ ~Panicked
        /\ pc = "done" => lexing_result = Success(ExpectedWords(input))

C1_Witness ==
    /\ pc = "done"
    /\ input = <<Ok(97), Ok(32), Ok(98)>>
    /\ lexing_result = Success(<<Word(<<97>>), Word(<<98>>)>>)

\* C2: when the first word is directly followed by a decoded symbol that is not
\* a space, the first two rule actions emit the word and then that one symbol
\* as Unrecognized, the second being the catch-all of SEEN FIRST WORD, which
\* leaves the stack at [ROOT]; "ba" yields exactly [Word("b"), Unrecognized("a")].
C2_WordThenUnrecognized ==
    LET n == FirstRunLen(input)
    IN /\ ( /\ n >= 1
            /\ n < Len(input)
            /\ input[n + 1].kind = "Ok"
            /\ input[n + 1].c # 32
            /\ Len(fired) >= 2 )
          => /\ fired[1].group = ROOT
             /\ fired[2].group = SEEN_FIRST_WORD
             /\ fired[2].rule = 3
             /\ SubSeq(pushed, 1, 2) = <<Word(FirstRun(input)),
                                         Unrecognized(<<input[n + 1].c>>)>>
             /\ (Len(fired) = 2 /\ pc = "bookmark") => state_stack = <<ROOT>>
       /\ (input = <<Ok(98), Ok(97)>> /\ pc = "done")
          => lexing_result = Success(<<Word(<<98>>), Unrecognized(<<97>>)>>)

C2_Witness ==
    /\ input = <<Ok(98), Ok(97)>>
    /\ pc = "done"
    /\ Len(fired) >= 2
    /\ pops # <<>>

\* C3: for the empty input run returns Success with no token; the only rule
\* action invoked is the end-of-input rule of ROOT, and the group stack stays
\* [ROOT] with no pop_state call throughout.
C3_EmptyInput ==
    input = <<>> =>
        /\ ~Panicked
        /\ state_stack = <<ROOT>>
        /\ pops = <<>>
        /\ pushed = <<>>
        /\ \A j \in 1..Len(fired) : fired[j].group = ROOT /\ fired[j].rule = 2
        /\ pc = "done" => /\ lexing_result = Success(<<>>)
                          /\ Len(fired) = 1

C3_Witness ==
    /\ input = <<>>
    /\ pc = "done"
    /\ lexing_result = Success(<<>>)
    /\ Len(fired) = 1

\* C4: a maximal run of n >= 1 identical letters at the start of the input is
\* the match of the first rule action and is pushed as one Word holding all n
\* letters; when the run is the whole input the result is that single Word and
\* the "matched" bookmark ends at the end-of-input position.
C4_FirstRunIsOneWord ==
    LET n == FirstRunLen(input)
    IN /\ (n >= 1 /\ Len(fired) >= 1)
          => /\ fired[1].match = FirstRun(input)
             /\ pushed[1] = Word(FirstRun(input))
       /\ (n >= 1 /\ n = Len(input) /\ pc = "done")
          => /\ lexing_result = Success(<<Word(FirstRun(input))>>)
             /\ matched = Len(input)

C4_Witness ==
    /\ input = <<Ok(97), Ok(97), Ok(97)>>
    /\ pc = "done"
    /\ lexing_result = Success(<<Word(<<97, 97, 97>>)>>)
    /\ matched = 3

\* C5: no rule action is invoked on a match that an earlier-declared rule of
\* its group matches too; in ROOT a one-symbol match 'a' or 'b' is handled by
\* rule 0 or 1 (on_first_word), never by the catch-all rule 3.
C5_EarlierRuleWinsTie ==
    \A j \in 1..Len(fired) :
        LET f == fired[j]
            w == [h \in 1..Len(f.match) |-> U64(f.match[h])]
        IN /\ \A k \in 0..(f.rule - 1) : ~RuleMatches(f.group, k, w)
           /\ (f.group = ROOT /\ f.match = <<97>>) => f.rule = 0
           /\ (f.group = ROOT /\ f.match = <<98>>) => f.rule = 1

C5_Witness ==
    /\ fired # <<>>
    /\ fired[1].group = ROOT
    /\ fired[1].match = <<97>>
    /\ fired[1].rule = 0
    /\ rules_in_root(3, <<U64(97)>>)

-----------------------------------------------------------------------------
(* The reference matcher: among the prefixes of a stream that some rule of *)
(* the group matches, the longest, and for it the earliest-declared rule.  *)

Stream(syms) == syms \o <<U64Max, U64Max>>

Candidates(g, st) ==
    {c \in (0..3) \X (1..Len(st)) : RuleMatches(g, c[1], SubSeq(st, 1, c[2]))}

Best(g, st) ==
    CHOOSE c \in Candidates(g, st) :
        \A d \in Candidates(g, st) :
            d[2] < c[2] \/ (d[2] = c[2] /\ c[1] <= d[1])

\* C6: a scan of either group's dispatch table from sub-state 0 over a bounded
\* symbol sequence followed by EOF never consumes more than the longest prefix
\* that some rule of the group matches, can go on until it accepts, and when
\* it accepts it fires the rule the reference matcher selects, having consumed
\* exactly the reference matcher's span.
C6_TableAgreesWithReference ==
    (pc = "table" /\ probe.s0 = 0) =>
        LET st == Stream(probe.syms)
        IN /\ Candidates(probe.g, st) # {}
           /\ probe.out.tag # "Unreachable"
           /\ probe.i - 1 <= Best(probe.g, st)[2]
           /\ probe.out.tag # "Accept" => probe.i <= Len(probe.syms) + 2
           /\ probe.out.tag = "Accept" =>
                 /\ probe.out.n = Best(probe.g, st)[1]
                 /\ probe.i - 1 = Best(probe.g, st)[2]

C6_Witness ==
    /\ pc = "table"
    /\ probe.g = SEEN_FIRST_WORD
    /\ probe.s0 = 0
    /\ probe.syms = <<U64(32), U64(97), U64(97), U64(33)>>
    /\ probe.out = Accept(0)
    /\ probe.i = 4

\* C7: once run has built its result, the result is Success for the final
\* status ExitFinished, Failure for ExitFail and Partial for any other status,
\* and it carries exactly the tokens pushed to the output, in the order pushed.
C7_ResultClassifiesStatus ==
    pc \in {"tear_down", "done"} =>
        /\ lexing_result.tokens = pushed
        /\ status = ExitFinished => lexing_result.kind = "Success"
        /\ status = ExitFail => lexing_result.kind = "Failure"
        /\ status \notin {ExitFinished, ExitFail} => lexing_result.kind = "Partial"

C7_Witness ==
    /\ pc = "done"
    /\ status = ExitFail
    /\ lexing_result.kind = "Failure"
    /\ lexing_result.tokens = pushed
    /\ pushed # <<>>

\* C8: the group stack is never empty and has ROOT at its bottom, and every
\* pop_state call found at least two groups on the stack.
C8_RootNeverPopped ==
    /\ Len(state_stack) >= 1
    /\ state_stack[1] = ROOT
    /\ \A j \in 1..Len(pops) : pops[j] >= 2

C8_Witness ==
    /\ Len(pops) >= 2
    /\ state_stack = <<ROOT>>
    /\ pc = "done"

\* C9: in every generated transition function exactly one arm applies to any
\* symbol (at most one interval arm, else the single wildcard arm), its outcome
\* is an accepting transition or ContinueWith of a sub-state the dispatch of
\* the group defines, and no run and no scan reaches an unreachable-state panic.
C9_TransitionsTotal ==
    /\ pc # "panic_unreachable"
    /\ current_state(state_stack) \in {0, 1}
    /\ pc = "table" =>
         LET arms == IF probe.g = 0 THEN dispatch_in_state_0(probe.s)
                                    ELSE dispatch_in_state_1(probe.s)
             sym == SymAt(probe)
             explicit == {j \in 1..Len(arms) :
                             ~arms[j].wild /\ ArmApplies(arms[j], sym)}
             wilds == {j \in 1..Len(arms) : arms[j].wild}
         IN /\ arms # <<>>
            /\ Cardinality(explicit) <= 1
            /\ Cardinality(wilds) <= 1
            /\ explicit = {} => wilds # {}
            /\ probe.out.tag \in {"NotRun", "ContinueWith", "Accept"}
            /\ probe.out.tag = "ContinueWith" =>
                  /\ probe.g = 0 => dispatch_in_state_0(probe.out.n) # <<>>
                  /\ probe.g = 1 => dispatch_in_state_1(probe.out.n) # <<>>

C9_Witness ==
    /\ pc = "table"
    /\ probe.g = 1
    /\ probe.s0 = 0
    /\ probe.syms = <<U64Max>>
    /\ probe.out = Goto(3)

\* C10: the position stored in the "matched" bookmark never decreases.
C10_BookmarkMonotone == [][matched' >= matched]_vars

C10_Witness ==
    /\ pc = "stepped"
    /\ status = ExitSuccess
    /\ Len(fired) >= 3
    /\ matched = Len(input)
    /\ matched >= 3

\* C11: an accepting transition does, in this order and each exactly there:
\* current_match takes the popped match buffer; the rule action of the arm is
\* invoked and sees that current_match (any token it pushes is made from it);
\* the "matched" bookmark takes the reader position; the status becomes
\* ExitSuccess.  No status becomes ExitSuccess, no action is invoked and no
\* bookmark is set anywhere else.
C11_AcceptEffectsInOrder ==
    [][ /\ pc = "pop_result" =>
              /\ pc' = "action"
              /\ current_match' = result
              /\ fired' = fired /\ matched' = matched /\ status' = status
        /\ pc = "action" =>
              /\ pc' = "bookmark"
              /\ Len(fired') = Len(fired) + 1
              /\ fired'[Len(fired')].group = arm[1]
              /\ fired'[Len(fired')].rule = arm[2]
              /\ fired'[Len(fired')].match = current_match
              /\ pushed' # pushed =>
                    pushed'[Len(pushed')].text \in {current_match, trim(current_match)}
              /\ current_match' = current_match
              /\ matched' = matched /\ status' = status
        /\ pc = "bookmark" =>
              /\ pc' = "stepped"
              /\ matched' = Position(offset, character)
              /\ status' = ExitSuccess
              /\ fired' = fired /\ current_match' = current_match
        /\ (status' = ExitSuccess /\ status # ExitSuccess) => pc = "bookmark"
        /\ fired' # fired => pc = "action"
        /\ pushed' # pushed => pc = "action"
        /\ current_match' # current_match => pc = "pop_result"
        /\ matched' # matched => pc = "bookmark"
      ]_vars

C11_Witness ==
    /\ pc = "stepped"
    /\ status = ExitSuccess
    /\ Len(fired) = 2
    /\ fired[2].match = current_match
    /\ current_match = <<32, 98>>
    /\ pushed[2] = Word(<<98>>)
    /\ matched = Position(offset, character)

\* C12: from the step that chooses an accepting arm until the next scan begins
\* the reader is neither advanced nor rolled back; the next scan starts in
\* sub-state 0 with an empty match buffer on the very symbol the accepting step
\* examined, at the position the bookmark recorded.
C12_AcceptKeepsReaderPosition ==
    [][ ( \/ pc \in {"pop_result", "action", "bookmark", "scan"}
          \/ pc' = "pop_result"
          \/ (pc \in {"stepped", "loop"} /\ status = ExitSuccess) )
        => /\ offset' = offset
           /\ character' = character
           /\ (pc' = "loop" /\ status' = Initial /\ fired # <<>>) =>
                 /\ result' = <<>>
                 /\ Position(offset', character') = matched'
                 /\ scan_start' = matched'
      ]_vars

C12_Witness ==
    /\ pc = "loop"
    /\ status = Initial
    /\ fired # <<>>
    /\ character = Ok(33)
    /\ result = <<>>
    /\ Position(offset, character) = matched
    /\ matched >= 2

\* C13: when the previous step of a scan examined EOF and the scan continued,
\* the status after the following step is ExitFinished; the status becomes
\* ExitFinished only there, with the reader at EOF and the whole input
\* consumed; once ExitFinished the run starts no further scan and goes on to
\* build its result, so a Success result implies that no input is left.
C13_FinishedOnlyAfterEof ==
    [][ /\ (pc = "stepped" /\ finished) => status' = ExitFinished
        /\ (status' = ExitFinished /\ status # ExitFinished) =>
              /\ pc = "stepped"
              /\ finished
              /\ is_eof(character)
              /\ offset = Len(input)
        /\ status = ExitFinished =>
              /\ status' = ExitFinished
              /\ pc' \in {"result", "tear_down", "done"}
              /\ fired' = fired
        /\ lexing_result'.kind = "Success" =>
              /\ offset' = Len(input)
              /\ is_eof(character')
      ]_vars

C13_Witness ==
    /\ pc = "result"
    /\ status = ExitFinished
    /\ finished
    /\ Len(input) >= 3
    /\ offset = Len(input)

\* C14: a run never aborts on an EndOfGroup symbol met while a scan is
\* continuing: the condition is surfaced as a value run returns.
C14_EndOfGroupIsNoAbort == pc # "panic_missing_rules"

\* C15: a run never aborts on a decoding error or another non-EOF reader error
\* met while a scan is continuing: the pass ends and run returns a Partial or
\* Failure result with the tokens emitted before the fault.
C15_ReaderErrorIsNoAbort == pc # "panic_unexpected_error"

-----------------------------------------------------------------------------
(* The tokens the grammar and its two groups assign to a text of decoded   *)
(* symbols, computed without the tables: in ROOT a run of one letter is a  *)
(* word, in SEEN FIRST WORD a space and a run of one letter is a word, and *)
(* any other symbol is unrecognized on its own and leads back to ROOT.     *)

LetterRun(s) ==
    CHOOSE n \in 1..Len(s) :
        /\ \A j \in 1..n : s[j] = s[1]
        /\ n < Len(s) => s[n + 1] # s[1]

RECURSIVE RefTokens(_, _)
RefTokens(s, g) ==
    IF s = <<>> THEN <<>>
    ELSE IF g = ROOT /\ s[1] \in {97, 98}
    THEN <<Word(SubSeq(s, 1, LetterRun(s)))>>
         \o RefTokens(SubSeq(s, LetterRun(s) + 1, Len(s)), SEEN_FIRST_WORD)
    ELSE IF g = SEEN_FIRST_WORD /\ Len(s) >= 2 /\ s[1] = 32 /\ s[2] \in {97, 98}
    THEN <<Word(SubSeq(s, 2, LetterRun(Tail(s)) + 1))>>
         \o RefTokens(SubSeq(s, LetterRun(Tail(s)) + 2, Len(s)), SEEN_FIRST_WORD)
    ELSE <<Unrecognized(<<s[1]>>)>> \o RefTokens(Tail(s), ROOT)

\* C16: on an input of validly decoded symbols the run does not abort and its
\* status is never ExitFail; every firing of a catch-all rule has a one-symbol
\* match and pushes one Unrecognized token; and the run returns Success with
\* the tokens of the whole input, the words after an unrecognized symbol
\* included ("!a" gives [Unrecognized("!"), Word("a")]).
C16_UnrecognizedIsOutput ==
    AllOk(input) =>
        /\ ~Panicked
        /\ status # ExitFail
        /\ \A j \in 1..Len(fired) : fired[j].rule = 3 => Len(fired[j].match) = 1
        /\ Cardinality({j \in 1..Len(pushed) : pushed[j].kind = "Unrecognized"})
                  = Cardinality({j \in 1..Len(fired) : fired[j].rule = 3})
        /\ pc = "done" => lexing_result = Success(RefTokens(Chars(input), ROOT))

C16_Witness ==
    /\ pc = "done"
    /\ input = <<Ok(33), Ok(97)>>
    /\ lexing_result = Success(<<Unrecognized(<<33>>), Word(<<97>>)>>)

\* C17: in every run set_up is invoked exactly once, before the first reader
\* advance and dispatch step, and tear_down exactly once, after the result is
\* built; a run that has ended, by returning or by aborting, has invoked
\* set_up and then tear_down and nothing else.
C17_HooksOncePerRun ==
    /\ pc = "run" => calls = <<>>
    /\ pc \notin {"run", "tear_down", "done"} /\ ~Panicked => calls = <<"set_up">>
    /\ pc = "tear_down" => calls = <<"set_up">> /\ lexing_result # NoResult
    /\ pc = "done" \/ Panicked => calls = <<"set_up", "tear_down">>

\* C18: on an input of validly decoded symbols every scan that is entered
\* comes back to the head of its loop with a status that does not continue,
\* and the run reaches its return with a result.
C18_RunTerminates ==
    /\ (AllOk(input) /\ pc = "scan")
           ~> (pc = "loop" /\ ~should_continue(status))
    /\ AllOk(input) ~> (pc = "done" /\ lexing_result # NoResult)

C18_Witness ==
    /\ pc = "done"
    /\ AllOk(input)
    /\ Len(input) >= 3
    /\ Len(fired) >= 3
    /\ lexing_result # NoResult

\* C19: when run returns, the output buffer of the lexer is empty and its
\* group stack is exactly [ROOT]; and a second run on the same lexer over the
\* same input returns what the first run, on a freshly defined lexer,
\* returned.
C19_RunStateIsReset ==
    pc = "done" =>
        /\ output = <<>>
        /\ state_stack = <<ROOT>>
        /\ first_result # NoResult => lexing_result = first_result

C19_Witness ==
    /\ pc = "done"
    /\ first_result # NoResult
    /\ Len(first_result.tokens) >= 2
    /\ lexing_result = first_result
    /\ \E j \in 1..Len(fired) : fired[j].group = SEEN_FIRST_WORD

\* C20: every Word token pushed in any run, returning or not, has a
\* non-empty text of only 'a' or only 'b'; no Word holds a space, though the
\* match of a spaced word begins with one.
C20_WordTextIsOneLetterRun ==
    \A j \in 1..Len(pushed) :
        pushed[j].kind = "Word" =>
            /\ IsWordText(pushed[j].text)
            /\ \A h \in 1..Len(pushed[j].text) : pushed[j].text[h] # 32

C20_Witness ==
    /\ pc = "done"
    /\ Len(pushed) >= 2
    /\ pushed[2].kind = "Word"
    /\ Len(fired) >= 2
    /\ fired[2].group = SEEN_FIRST_WORD
    /\ fired[2].rule \in {0, 1}
    /\ fired[2].match = <<32>> \o pushed[2].text

\* C21: on any Switch, toggle negates the status and switch(b) sets it to b,
\* both leaving value as it was; two consecutive toggles give back the Switch
\* they started from; and after any sequence of such calls exactly one of
\* on() and off() is Some(value), the other None.
C21_SwitchLaws ==
    /\ \A j \in 2..Len(sw_trace) :
          /\ sw_trace[j].sw.value = sw_trace[j - 1].sw.value
          /\ sw_trace[j].op = "toggle" =>
                is_on(sw_trace[j].sw) = ~is_on(sw_trace[j - 1].sw)
          /\ sw_trace[j].op = "switch" =>
                is_on(sw_trace[j].sw) = sw_trace[j].arg
    /\ \A j \in 3..Len(sw_trace) :
          sw_trace[j].op = "toggle" /\ sw_trace[j - 1].op = "toggle" =>
              sw_trace[j].sw = sw_trace[j - 2].sw
    /\ pc = "switch" =>
          /\ sw = sw_trace[Len(sw_trace)].sw
          /\ \/ on(sw) = Some(sw.value) /\ off(sw) = None
             \/ on(sw) = None /\ off(sw) = Some(sw.value)

C21_Witness ==
    /\ pc = "switch"
    /\ Len(sw_trace) >= 4
    /\ sw_trace[2].op = "switch"
    /\ sw_trace[3].op = "toggle"
    /\ sw_trace[4].op = "toggle"
    /\ sw.value = 1
    /\ off(sw) = Some(1)

\* The matches seen by the fired rule actions, joined in firing order.
RECURSIVE ConcatMatches(_)
ConcatMatches(f) ==
    IF f = <<>> THEN <<>> ELSE Head(f).match \o ConcatMatches(Tail(f))

\* The symbols taken from the reader and not yet seen by a rule action.
Pending == IF pc = "action" THEN current_match ELSE result

\* C22: on an input of validly decoded symbols no symbol is lost or
\* duplicated: at every point of the run the matches of the fired rule
\* actions, joined in firing order and followed by the symbols not yet handed
\* to an action, are the input up to the reader position; the end-of-input
\* rules fire with an empty match; and when run returns the joined matches are
\* the whole input.
C22_MatchesPartitionInput ==
    AllOk(input) =>
        /\ ConcatMatches(fired) \o Pending
              = SubSeq(Chars(input), 1, Position(offset, character))
        /\ \A j \in 1..Len(fired) : fired[j].rule = 2 => fired[j].match = <<>>
        /\ pc = "done" => ConcatMatches(fired) = Chars(input)

C22_Witness ==
    /\ pc = "done"
    /\ AllOk(input)
    /\ Len(input) >= 4
    /\ Len(fired) >= 4
    /\ \E j \in 1..Len(fired) : Len(fired[j].match) >= 2
    /\ \E j \in 1..Len(fired) : fired[j].rule = 3
    /\ ConcatMatches(fired) = Chars(input)

\* C23: no transition function returns ExitFail, on any sub-state and symbol;
\* the status of a run is never ExitFail; a scan hands back ExitSuccess or
\* ExitFinished only, so run builds its result from ExitFinished; and every
\* result run builds is Success, never Partial or Failure.
C23_OnlySuccessIsReturned ==
    /\ \A g \in {ROOT, SEEN_FIRST_WORD} : \A s \in SubStates(g) :
          \A sym \in BoundarySymbols : step(g, s, sym).tag # "ExitFail"
    /\ status # ExitFail
    /\ pc = "loop" /\ ~should_continue(status)
          => status \in {ExitSuccess, ExitFinished}
    /\ pc = "result" => status = ExitFinished
    /\ lexing_result # NoResult => lexing_result.kind = "Success"

C23_Witness ==
    /\ pc = "done"
    /\ lexing_result.kind = "Success"
    /\ Len(lexing_result.tokens) >= 3
    /\ lexing_result.tokens[1].kind = "Unrecognized"
    /\ lexing_result.tokens[3].kind = "Unrecognized"
    /\ status = ExitFinished

====
